---- MODULE Spec2Model ----
(***************************************************************************)
(* A model of mojopi's request handlers (src/src/mojopi/views.py): the     *)
(* user store, the login session, the picture directory, the project and   *)
(* ring stores and the ring directory, with one action per handler.        *)
(*                                                                         *)
(* Text is a sequence of one-character strings, so that concatenation,     *)
(* suffixes, lower-casing and pattern matching are computed, not assumed.  *)
(* Python's None and "" are both the empty sequence where the code only    *)
(* tests truthiness (`if user.picture`, `if not user.password`).           *)
(***************************************************************************)
EXTENDS Integers, Sequences, FiniteSets, TLC

VARIABLES users, profiles, session, picdir, regpw,
          projects, rings, ringlog, ringdir, upl, resp

vars == <<users, profiles, session, picdir, regpw,
          projects, rings, ringlog, ringdir, upl, resp>>

\* The variables of the accounts and of the package index.
uservars == <<users, profiles, session, picdir, regpw>>
pkgvars == <<projects, rings, ringlog, ringdir, upl>>

\* ------------------------------------------------------------------ bounds

\* Longest client-supplied file name of an avatar upload.
MaxFileLen == 3

\* Most Project rows of the store.
MaxProjects == 2

\* Longest Project name and longest query string of a search.
MaxNameLen == 2
MaxQueryLen == 2

\* ------------------------------------------------------------------ text

Empty == <<>>

\* All sequences over S of length at most n.
RECURSIVE SeqsUpTo(_, _)
SeqsUpTo(S, n) ==
    IF n = 0 THEN {<<>>}
    ELSE LET shorter == SeqsUpTo(S, n - 1)
         IN  shorter \cup {Append(s, c) : s \in shorter, c \in S}

Range(s) == {s[i] : i \in DOMAIN s}

\* ------------------------------------------------------------------ inputs

ValidEmails == {"e1", "e2"}
Emails == ValidEmails \cup {"bad"}

UA == <<"a">>
UB == <<"b">>
UC == <<"c">>
ValidUsernames == {UA, UB, UC}
Usernames == ValidUsernames \cup {<<"!">>}

NoPassword == "None"
Passwords == {"p1", "p2"}

Anonymous == 0

\* The characters of an uploaded file's name: an alphanumeric, the dot and the
\* path separator.
FileChars == {"x", ".", "/"}
FileNames == SeqsUpTo(FileChars, MaxFileLen)
Bytes == {"B1", "B2"}
\* request.files without a "file" entry.
NoFile == [present |-> FALSE, filename |-> <<>>, bytes |-> "B1"]
Files == {NoFile} \cup [present : {TRUE}, filename : FileNames, bytes : Bytes]

\* The (education, experience, bio) triples a form submits.
Forms == {<<"edu1", "exp1", "bio1">>, <<"edu2", "exp2", "bio2">>}

\* The descriptions of the error responses.
DefaultDescription == "<default description>"
PrivateDescription == "User's profile is private."
NoPictureDescription == "Profile picture not found."

\* ------------------------------------------------------------------ models / utils

is_valid_email(email) == email \in ValidEmails

is_valid_username(username) == username \in ValidUsernames

hash_password(password) == <<"h", password>>

verify_password(password, hashed_password) ==
    password # NoPassword /\ hashed_password = hash_password(password)

\* User.get_or_none(User.email == email): the id of the first match, or 0.
UserByEmail(email) ==
    LET ids == {i \in DOMAIN users : users[i].email = email}
    IN  IF ids = {} THEN 0 ELSE CHOOSE i \in ids : \A j \in ids : i <= j

\* The unique constraints of the User table.
UsernameTaken(username, except) ==
    \E i \in DOMAIN users : i # except /\ users[i].username = username

EmailTaken(email) == \E i \in DOMAIN users : users[i].email = email

\* add_user: InvalidInputError on a bad or an already used email or username;
\* the stored hash is absent when no password is given.
add_user_fails(email, username) ==
    \/ ~is_valid_email(email)
    \/ ~is_valid_username(username)
    \/ EmailTaken(email)
    \/ UsernameTaken(username, 0)

add_user_record(email, username, password) ==
    [email |-> email, username |-> username,
     password |-> IF password = NoPassword THEN Empty ELSE hash_password(password),
     picture |-> Empty]

\* ------------------------------------------------------------------ state

Init ==
    /\ users = <<>>
    /\ profiles = <<>>
    /\ session = Anonymous
    /\ picdir = <<>>
    /\ regpw = <<>>
    /\ projects = <<>>
    /\ rings = <<>>
    /\ ringlog = <<>>
    /\ ringdir = <<>>
    /\ upl = [pc |-> "idle"]
    /\ resp = [op |-> "none"]

is_authenticated == session # Anonymous

\* ------------------------------------------------------------------ register

\* register (lines 134-153). The password NoPassword stands for an account
\* created without one, whose stored hash is absent until a reset (the case
\* line 111 of login tests for).
Register(email, username, password, is_public) ==
    IF ~is_valid_email(email) \/ ~is_valid_username(username)
    THEN /\ resp' = [op |-> "register", status |-> "invalid", uid |-> 0]
         /\ UNCHANGED <<users, profiles, session, picdir, regpw>>
         /\ UNCHANGED pkgvars
    ELSE IF add_user_fails(email, username)
    THEN /\ resp' = [op |-> "register", status |-> "invalid", uid |-> 0]
         /\ UNCHANGED <<users, profiles, session, picdir, regpw>>
         /\ UNCHANGED pkgvars
    ELSE /\ users' = Append(users, add_user_record(email, username, password))
         /\ profiles' = Append(profiles,
                [is_public |-> is_public, education |-> "",
                 experience |-> "", bio |-> ""])
         /\ regpw' = Append(regpw, password)
         /\ session' = Len(users) + 1
         /\ resp' = [op |-> "register", status |-> "ok", uid |-> Len(users) + 1]
         /\ UNCHANGED picdir
         /\ UNCHANGED pkgvars

\* ------------------------------------------------------------------ login

\* login with the verification negated: a matching password is refused and
\* any other one is accepted.
login_branch_negated(user, password) ==
    IF user.password = Empty THEN "reset"
    ELSE IF ~verify_password(password, user.password) THEN "ok"
    ELSE "wrong"

\* The branch login takes for an existing user (lines 110-123).
login_branch(user, password) ==
    IF user.password = Empty THEN "reset"
    ELSE IF verify_password(password, user.password) THEN "ok"
    ELSE "wrong"

Login(email, password) ==
    LET uid == UserByEmail(email)
        outcome == IF uid = 0 THEN "noemail" ELSE login_branch(users[uid], password)
    IN  /\ session' = IF outcome \in {"reset", "ok"} THEN uid ELSE session
        /\ resp' = [op |-> "login", email |-> email, password |-> password,
                    outcome |-> outcome]
        /\ UNCHANGED <<users, profiles, picdir, regpw>>
        /\ UNCHANGED pkgvars

Logout ==
    /\ session' = Anonymous
    /\ resp' = [op |-> "logout"]
    /\ UNCHANGED <<users, profiles, picdir, regpw>>
    /\ UNCHANGED pkgvars

\* ------------------------------------------------------------------ reset_password

ResetPassword(new_password, confirm_password) ==
    IF ~is_authenticated
    THEN /\ resp' = [op |-> "reset_password", status |-> 401]
         /\ UNCHANGED <<users, profiles, session, picdir, regpw>>
         /\ UNCHANGED pkgvars
    ELSE IF new_password # confirm_password
    THEN /\ resp' = [op |-> "reset_password", status |-> 403]
         /\ UNCHANGED <<users, profiles, session, picdir, regpw>>
         /\ UNCHANGED pkgvars
    ELSE /\ users' = [users EXCEPT ![session].password = hash_password(new_password)]
         /\ regpw' = [regpw EXCEPT ![session] = "Changed"]
         /\ resp' = [op |-> "reset_password", status |-> 302]
         /\ UNCHANGED <<profiles, session, picdir>>
         /\ UNCHANGED pkgvars

\* ------------------------------------------------------------------ profile

\* The response of profile(user_id) to the current requester (lines 180-195).
profile(user_id) ==
    IF user_id \notin DOMAIN users
    THEN [status |-> 404, description |-> DefaultDescription, profile |-> Empty]
    ELSE IF profiles[user_id].is_public \/ session = user_id
    THEN [status |-> 200, description |-> "", profile |-> <<profiles[user_id]>>]
    ELSE [status |-> 404, description |-> PrivateDescription, profile |-> Empty]

Profile(user_id) ==
    /\ resp' = [op |-> "profile", uid |-> user_id, r |-> profile(user_id)]
    /\ UNCHANGED <<users, profiles, session, picdir, regpw>>
    /\ UNCHANGED pkgvars

\* ------------------------------------------------------------------ edit_profile

\* A save that overwrites the username without the unique constraint.
save_username_unchecked(uid, username) ==
    [table |-> [users EXCEPT ![uid].username = username], IntegrityError |-> FALSE]

\* current_user.username = username; current_user.save(): the user table after
\* it and whether the unique constraint raised IntegrityError (lines 262-266).
save_username(uid, username) ==
    IF UsernameTaken(username, uid)
    THEN [table |-> users, IntegrityError |-> TRUE]
    ELSE [table |-> [users EXCEPT ![uid].username = username],
          IntegrityError |-> FALSE]

\* pf.education = ...; pf.experience = ...; pf.bio = ...; pf.save()
save_profile(uid, education, experience, bio) ==
    [profiles EXCEPT ![uid] = [@ EXCEPT !.education = education,
                                        !.experience = experience,
                                        !.bio = bio]]

EditProfile(username, form) ==
    IF ~is_authenticated
    THEN /\ resp' = [op |-> "edit_profile", status |-> 401]
         /\ UNCHANGED <<users, profiles, session, picdir, regpw>>
         /\ UNCHANGED pkgvars
    ELSE LET saved == save_username(session, username)
         IN  /\ users' = saved.table
             /\ profiles' = save_profile(session, form[1], form[2], form[3])
             /\ resp' = [op |-> "edit_profile", status |-> 302, uid |-> session,
                         username |-> username, form |-> form,
                         conflict |-> saved.IntegrityError,
                         before |-> [i \in DOMAIN users |-> users[i].username]]
             /\ UNCHANGED <<session, picdir, regpw>>
             /\ UNCHANGED pkgvars

\* ------------------------------------------------------------------ avatar

IsAllowedChar(c) == c \in {"x", ".", "_", "-"}

\* "_".join(filename.split()) on the name whose separators became spaces.
RECURSIVE JoinWords(_, _)
JoinWords(s, started) ==
    IF s = <<>> THEN <<>>
    ELSE IF Head(s) = " "
    THEN IF started /\ \E i \in DOMAIN s : s[i] # " "
         THEN IF Len(s) > 1 /\ s[2] = " "
              THEN JoinWords(Tail(s), started)
              ELSE <<"_">> \o JoinWords(Tail(s), started)
         ELSE JoinWords(Tail(s), started)
    ELSE <<Head(s)>> \o JoinWords(Tail(s), TRUE)

RECURSIVE StripLeft(_, _)
StripLeft(s, chars) ==
    IF s # <<>> /\ Head(s) \in chars THEN StripLeft(Tail(s), chars) ELSE s

RECURSIVE StripRight(_, _)
StripRight(s, chars) ==
    IF s # <<>> /\ s[Len(s)] \in chars
    THEN StripRight(SubSeq(s, 1, Len(s) - 1), chars) ELSE s

\* werkzeug's secure_filename: separators to spaces, words joined by "_",
\* characters outside [A-Za-z0-9_.-] dropped, "." and "_" stripped at both ends.
secure_filename(filename) ==
    LET spaced == [i \in DOMAIN filename |->
                      IF filename[i] = "/" THEN " " ELSE filename[i]]
        joined == JoinWords(spaced, FALSE)
        kept == SelectSeq(joined, IsAllowedChar)
    IN  StripRight(StripLeft(kept, {".", "_"}), {".", "_"})

\* pathlib's Path(name).suffix for a name without separators.
PathSuffix(name) ==
    LET dots == {i \in DOMAIN name : name[i] = "."}
    IN  IF dots = {} THEN <<>>
        ELSE LET i == CHOOSE d \in dots : \A e \in dots : e <= d
             IN  IF 1 < i /\ i < Len(name) THEN SubSeq(name, i, Len(name))
                 ELSE <<>>

\* The picture stored under the client's (sanitized) file name.
stored_name_of_client(username, filename) == secure_filename(filename)

\* f"{username}{filename_suffix}" (lines 212-219).
stored_name(username, filename) ==
    username \o PathSuffix(secure_filename(filename))

WriteFile(dir, name, bytes) ==
    [n \in DOMAIN dir \cup {name} |-> IF n = name THEN bytes ELSE dir[n]]

ProfilePicUpload(file) ==
    IF ~is_authenticated
    THEN /\ resp' = [op |-> "upload", status |-> 401]
         /\ UNCHANGED <<users, profiles, session, picdir, regpw>>
         /\ UNCHANGED pkgvars
    ELSE IF ~file.present \/ file.filename = Empty
    THEN /\ resp' = [op |-> "upload", status |-> 400]
         /\ UNCHANGED <<users, profiles, session, picdir, regpw>>
         /\ UNCHANGED pkgvars
    ELSE LET name == stored_name(users[session].username, file.filename)
         IN  /\ picdir' = WriteFile(picdir, name, file.bytes)
             /\ users' = [users EXCEPT ![session].picture = name]
             /\ resp' = [op |-> "upload", status |-> 200, uid |-> session,
                         stored |-> name, bytes |-> file.bytes,
                         suffix |-> PathSuffix(secure_filename(file.filename)),
                         prev |-> users[session].picture]
             /\ UNCHANGED <<profiles, session, regpw>>
             /\ UNCHANGED pkgvars

DefaultAsset == "Sample_User_Icon.png"

\* get_profile_pic answering a missing picture with the default asset.
get_profile_pic_default(user_id) ==
    IF user_id = 0 /\ ~is_authenticated
    THEN [status |-> 401, description |-> DefaultDescription, body |-> Empty]
    ELSE IF user_id # 0 /\ user_id \notin DOMAIN users
    THEN [status |-> 404, description |-> "User not found.", body |-> Empty]
    ELSE LET user == users[IF user_id = 0 THEN session ELSE user_id]
         IN  IF user.picture # Empty /\ user.picture \in DOMAIN picdir
             THEN [status |-> 200, description |-> "",
                   body |-> <<picdir[user.picture]>>]
             ELSE [status |-> 200, description |-> "", body |-> <<DefaultAsset>>]

\* The response of get_profile_pic(user_id); user_id 0 is the route without
\* an id (lines 229-244).
get_profile_pic(user_id) ==
    IF user_id = 0 /\ ~is_authenticated
    THEN [status |-> 401, description |-> DefaultDescription, body |-> Empty]
    ELSE IF user_id # 0 /\ user_id \notin DOMAIN users
    THEN [status |-> 404, description |-> "User not found.", body |-> Empty]
    ELSE LET user == users[IF user_id = 0 THEN session ELSE user_id]
         IN  IF user.picture # Empty /\ user.picture \in DOMAIN picdir
             THEN [status |-> 200, description |-> "",
                   body |-> <<picdir[user.picture]>>]
             ELSE [status |-> 404, description |-> NoPictureDescription,
                   body |-> Empty]

GetProfilePic(user_id) ==
    /\ resp' = [op |-> "get_profile_pic", uid |-> user_id, r |-> get_profile_pic(user_id)]
    /\ UNCHANGED <<users, profiles, session, picdir, regpw>>
    /\ UNCHANGED pkgvars

\* A file of the picture directory disappears (the directory is shared and
\* unguarded; get_profile_pic tests is_file() for this reason).
LosePicture(name) ==
    /\ name \in DOMAIN picdir
    /\ picdir' = [n \in DOMAIN picdir \ {name} |-> picdir[n]]
    /\ resp' = [op |-> "lose_picture"]
    /\ UNCHANGED <<users, profiles, session, regpw>>
    /\ UNCHANGED pkgvars

\* ------------------------------------------------------------------ package index: stores

\* Python's None where the code tells it from "" (data.get("name"), a MAX
\* over no rows).
NoneV == <<"None">>

PA == <<"a">>
PB == <<"b">>
Names == {PA, PB}
V1 == <<"1">>
V2 == <<"2">>
Versions == {V1, V2}
Platforms == {Empty, <<"L">>}
Present == <<"v">>

\* The optional metadata of a Project and the optional fields of a Ring that
\* project_info reports.
MetaFields == {"description", "description_content_type", "home_page", "keywords",
               "license", "maintainer", "maintainer_email", "summary"}
RingInfoFields == {"author", "author_email", "requires_mojo"}
NoMeta == [f \in MetaFields |-> Empty]
AllMeta == [MetaFields -> {Empty, Present}]

\* add_project: a Project row; the timestamps are set on creation.
add_project(name, version, meta) ==
    meta @@ [name |-> name, version |-> version,
             create_at |-> <<Len(projects) + 1>>,
             last_modified |-> <<Len(projects) + 1>>]

AddProject(name, version, meta) ==
    /\ upl.pc = "idle"
    /\ projects' = Append(projects, add_project(name, version, meta))
    /\ resp' = [op |-> "add_project"]
    /\ UNCHANGED <<rings, ringlog, ringdir, upl>>
    /\ UNCHANGED uservars

\* ------------------------------------------------------------------ package index: queries

\* Field == value, a peewee Expression.
Eq(field, value) == [field |-> field, value |-> value]

\* bool(expression): Expression defines neither __bool__ nor __len__.
IsTruthy(expression) == TRUE

\* `a and b` keeping its first operand.
py_and_first(a, b) == a

\* Python's `a and b` on two expression objects.
py_and(a, b) == IF IsTruthy(a) THEN b ELSE a

Matches(row, expression) == row[expression.field] = expression.value

MatchingIds(table, expression) ==
    {i \in DOMAIN table : Matches(table[i], expression)}

MinOf(ids) == CHOOSE i \in ids : \A j \in ids : i <= j
MaxOf(ids) == CHOOSE i \in ids : \A j \in ids : j <= i

\* Model.get_or_none(expression): the id of the first matching row, or 0.
get_or_none(table, expression) ==
    IF MatchingIds(table, expression) = {} THEN 0
    ELSE MinOf(MatchingIds(table, expression))

CharVal(c) == IF c = "1" THEN 1 ELSE IF c = "2" THEN 2 ELSE 0

\* The order of strings that MAX uses.
RECURSIVE LexLess(_, _)
LexLess(a, b) ==
    IF b = <<>> THEN FALSE
    ELSE IF a = <<>> THEN TRUE
    ELSE IF Head(a) = Head(b) THEN LexLess(Tail(a), Tail(b))
    ELSE CharVal(Head(a)) < CharVal(Head(b))

latest_project_version(project_name) ==
    LET vs == {projects[i].version : i \in MatchingIds(projects, Eq("name", project_name))}
    IN  IF vs = {} THEN NoneV
        ELSE CHOOSE v \in vs : \A w \in vs : w = v \/ LexLess(w, v)

\* Project.get_or_none(Project.name == n and Project.version == v)
\* (lines 317, 373, 392, 416).
project_lookup(project_name, version) ==
    get_or_none(projects, py_and(Eq("name", project_name), Eq("version", version)))

\* Ring.select(fn.MAX(Ring.upload_at)).where(Ring.name == pname).scalar();
\* 0 stands for the None of no rows.
latest_ring_dt(pname) ==
    LET ids == MatchingIds(rings, Eq("name", pname))
    IN  IF ids = {} THEN 0 ELSE MaxOf({rings[i].upload_at : i \in ids})

\* Ring.get_or_none(Ring.name == pname and Ring.upload_at == latest_ring_dt)
latest_ring(pname) ==
    get_or_none(rings, py_and(Eq("name", pname), Eq("upload_at", latest_ring_dt(pname))))

\* Ring.select().where(Ring.name == n and Ring.version == v) (line 422).
files_rings(project_name, version) ==
    MatchingIds(rings, py_and(Eq("name", project_name), Eq("version", version)))

\* The lookup of ring_file's GET (lines 451-458).
ring_lookup(name, version, platform) ==
    IF platform # Empty
    THEN get_or_none(rings, py_and(py_and(Eq("name", name), Eq("version", version)),
                                   Eq("platform", platform)))
    ELSE get_or_none(rings, py_and(Eq("name", name), Eq("version", version)))

\* project_info's keys with license always reported.
info_keys_license_always(pj, ring) ==
    {"name", "version", "create_at", "last_modified", "license"}
        \cup {k \in MetaFields : pj[k] # Empty}
        \cup {k \in RingInfoFields : ring # <<>> /\ ring[1][k] # Empty}

\* The keys project_info puts in its map (lines 326-353); ring is <<>> or <<row>>.
info_keys(pj, ring) ==
    {"name", "version", "create_at", "last_modified"}
        \cup {k \in MetaFields : pj[k] # Empty}
        \cup {k \in RingInfoFields : ring # <<>> /\ ring[1][k] # Empty}

project_info(pname, version) ==
    LET pj == project_lookup(pname, version)
        ring == latest_ring(pname)
        row == IF ring = 0 THEN <<>> ELSE <<rings[ring]>>
    IN  IF pj = 0 THEN [found |-> FALSE, pj |-> 0, ring |-> ring, info |-> <<>>]
        ELSE [found |-> TRUE, pj |-> pj, ring |-> ring,
              info |-> [k \in info_keys(projects[pj], row) |->
                           IF k = "name" THEN pname
                           ELSE IF k \in RingInfoFields THEN row[1][k]
                           ELSE projects[pj][k]]]

\* project, project_history and project_files share their lookup (lines
\* 369-430); listing is the set of Ring ids the page lists.
ProjectView(op, project_name, version, listing) ==
    LET v == IF version = Empty THEN latest_project_version(project_name) ELSE version
        pj == project_lookup(project_name, v)
    IN  /\ upl.pc = "idle"
        /\ resp' = IF pj = 0
                   THEN [op |-> op, name |-> project_name, version |-> version,
                         status |-> 404]
                   ELSE [op |-> op, name |-> project_name, version |-> version,
                         status |-> 200, pj |-> pj, r |-> project_info(project_name, v),
                         listing |-> listing]
        /\ UNCHANGED pkgvars
        /\ UNCHANGED uservars

Project(project_name, version) == ProjectView("project", project_name, version, {})

ProjectHistory(project_name, version) ==
    ProjectView("project_history", project_name, version,
                MatchingIds(rings, Eq("name", project_name)))

ProjectFiles(project_name, version) ==
    ProjectView("project_files", project_name, version,
                files_rings(project_name,
                            IF version = Empty
                            THEN latest_project_version(project_name) ELSE version))

\* ring_file, GET (lines 447-468).
RingDownload(name, version, platform) ==
    LET v == IF version = Empty THEN latest_project_version(name) ELSE version
        ring == ring_lookup(name, v, platform)
    IN  /\ upl.pc = "idle"
        /\ resp' = [op |-> "ring_download", name |-> name, version |-> version,
                    platform |-> platform, ring |-> ring,
                    status |-> IF ring # 0 /\ rings[ring].file_name # Empty
                                  /\ rings[ring].file_name \in DOMAIN ringdir
                               THEN 200 ELSE 404]
        /\ UNCHANGED pkgvars
        /\ UNCHANGED uservars

\* ------------------------------------------------------------------ package index: upload

\* The checksum of a file's content; NoContent stands for a path that is not
\* a file.
NoContent == "<missing>"
Sha(content) == <<"sha256", content>>

ContentAt(dir, file_name) ==
    IF file_name \in DOMAIN dir THEN dir[file_name] ELSE NoContent

\* A checksum taken from the uploaded bytes.
upload_checksum_of_bytes(dir, file) == Sha(file.bytes)

\* sha256 = calculate_sha256(RINGS_PATH / file_name) (line 487).
upload_checksum(dir, file) == Sha(ContentAt(dir, file.filename))

\* add_ring: the duplicate lookup, written like the lookups of the views.
add_ring_duplicate(name, version, platform) ==
    get_or_none(rings, py_and(py_and(Eq("name", name), Eq("version", version)),
                              Eq("platform", platform))) # 0

add_ring(request, sha256) ==
    [name |-> request.name, version |-> request.version,
     platform |-> request.platform, author |-> request.author,
     author_email |-> request.author_email, require_dist |-> Empty,
     requires_mojo |-> request.require_mojo,
     file_name |-> request.file.filename, sha256 |-> sha256,
     upload_at |-> Len(rings) + 1]

\* The response of an upload that ended, with what the request changed.
UploadEnded(status, rings0, dir0, rings1, dir1) ==
    [op |-> "ring_upload", status |-> status,
     added |-> Len(rings1) - Len(rings0), wrote |-> dir1 # dir0]

\* ring_file, POST, up to the checksum (lines 470-487). missing_raises: whether
\* calculate_sha256 raises on a destination that is not a file.
UploadBegin(request, missing_raises) ==
    LET early == IF ~request.is_json THEN 415
                 ELSE IF ~request.file.present \/ request.file.filename = Empty THEN 400
                 ELSE IF request.file.filename \notin DOMAIN ringdir /\ missing_raises
                 THEN 500
                 ELSE 0
    IN  /\ upl.pc = "idle"
        /\ IF early # 0
           THEN /\ resp' = UploadEnded(early, rings, ringdir, rings, ringdir)
                /\ upl' = upl
           ELSE /\ upl' = [pc |-> "checksummed", request |-> request,
                           sha256 |-> upload_checksum(ringdir, request.file),
                           rings0 |-> rings, dir0 |-> ringdir]
                /\ resp' = [op |-> "ring_upload", status |-> 0]
        /\ UNCHANGED <<projects, rings, ringlog, ringdir>>
        /\ UNCHANGED uservars

\* The name check and add_ring (lines 489-507).
UploadRecord ==
    /\ upl.pc = "checksummed"
    /\ IF upl.request.name = NoneV
       THEN /\ resp' = UploadEnded(422, upl.rings0, upl.dir0, rings, ringdir)
            /\ upl' = [pc |-> "idle"]
            /\ UNCHANGED <<rings, ringlog>>
       ELSE IF add_ring_duplicate(upl.request.name, upl.request.version,
                                  upl.request.platform)
       THEN /\ resp' = UploadEnded(400, upl.rings0, upl.dir0, rings, ringdir)
            /\ upl' = [pc |-> "idle"]
            /\ UNCHANGED <<rings, ringlog>>
       ELSE /\ rings' = Append(rings, add_ring(upl.request, upl.sha256))
            /\ ringlog' = Append(ringlog, [bytes |-> upl.request.file.bytes,
                                           written |-> FALSE])
            /\ upl' = [upl EXCEPT !.pc = "recorded"]
            /\ resp' = resp
    /\ UNCHANGED <<projects, ringdir>>
    /\ UNCHANGED uservars

\* file.save(RINGS_PATH / file.filename) (line 509).
UploadWrite ==
    /\ upl.pc = "recorded"
    /\ ringdir' = WriteFile(ringdir, upl.request.file.filename, upl.request.file.bytes)
    /\ ringlog' = [ringlog EXCEPT ![Len(rings)].written = TRUE]
    /\ upl' = [pc |-> "idle"]
    /\ resp' = UploadEnded(200, upl.rings0, upl.dir0, rings, ringdir')
    /\ UNCHANGED <<projects, rings>>
    /\ UNCHANGED uservars

\* The process dies during an upload: nothing the request did is undone.
UploadCrash ==
    /\ upl.pc # "idle"
    /\ upl' = [pc |-> "idle"]
    /\ resp' = UploadEnded(0, upl.rings0, upl.dir0, rings, ringdir)
    /\ UNCHANGED <<projects, rings, ringlog, ringdir>>
    /\ UNCHANGED uservars

\* A file appears in the ring directory without an upload (the directory is
\* shared and unguarded; the checksum of line 487 reads what is there).
PlaceFile(file_name, bytes) ==
    /\ upl.pc = "idle"
    /\ file_name \notin DOMAIN ringdir
    /\ ringdir' = WriteFile(ringdir, file_name, bytes)
    /\ resp' = [op |-> "place_file"]
    /\ UNCHANGED <<projects, rings, ringlog, upl>>
    /\ UNCHANGED uservars

\* ------------------------------------------------------------------ package index: search

Lower(c) == IF c = "A" THEN "a" ELSE c

lower(text) == [i \in DOMAIN text |-> Lower(text[i])]

\* Python's `needle in hay`.
Contains(needle, hay) ==
    \E k \in 0..(Len(hay) - Len(needle)) :
        SubSeq(hay, k + 1, k + Len(needle)) = needle

\* SQL's case-insensitive LIKE: % is any run of characters, _ any one.
RECURSIVE Like(_, _)
Like(pattern, text) ==
    IF pattern = <<>> THEN text = <<>>
    ELSE IF Head(pattern) = "%"
    THEN Like(Tail(pattern), text) \/ (text # <<>> /\ Like(pattern, Tail(text)))
    ELSE /\ text # <<>>
         /\ Head(pattern) = "_" \/ Lower(Head(pattern)) = Lower(Head(text))
         /\ Like(Tail(pattern), Tail(text))

\* The rows Project.name ** f"%{query_string}%" selects, in id order.
like_rows(table, query_string) ==
    SelectSeq([i \in DOMAIN table |-> i],
              LAMBDA i : Like(<<"%">> \o query_string \o <<"%">>, table[i].name))

\* search keeping every row of the query.
search_query_only(table, query_string) == like_rows(table, query_string)

\* The results list of search (lines 519-523), as the ids of the rows.
search(table, query_string) ==
    SelectSeq(like_rows(table, query_string),
              LAMBDA i : Contains(lower(query_string), lower(table[i].name)))

Search(query_string) ==
    /\ upl.pc = "idle"
    /\ resp' = [op |-> "search", q |-> query_string,
                results |-> search(projects, query_string)]
    /\ UNCHANGED pkgvars
    /\ UNCHANGED uservars

\* ------------------------------------------------------------------ specifications

UserIds == 1..(Len(users) + 1)

\* Authentication: register, login, logout, reset_password.
NextAuth ==
    \/ \E e \in Emails, u \in Usernames, p \in Passwords \cup {NoPassword} :
          Register(e, u, p, TRUE)
    \/ \E e \in ValidEmails, p \in Passwords \cup {NoPassword} : Login(e, p)
    \/ Logout
    \/ \E n \in Passwords, c \in Passwords : ResetPassword(n, c)

SpecAuth == Init /\ [][NextAuth]_vars

\* Profiles: register, login, logout, profile, edit_profile.
NextProfile ==
    \/ \E e \in Emails, u \in Usernames, pub \in BOOLEAN : Register(e, u, "p1", pub)
    \/ \E e \in ValidEmails : Login(e, "p1")
    \/ Logout
    \/ \E id \in UserIds : Profile(id)
    \/ \E u \in Usernames, f \in Forms : EditProfile(u, f)

SpecProfile == Init /\ [][NextProfile]_vars

\* Avatars: one account (its username is never changed here), upload, fetch,
\* and the loss of a stored file.
NextAvatar ==
    \/ Register("e1", UA, "p1", TRUE)
    \/ Login("e1", "p1")
    \/ Logout
    \/ \E f \in Files : ProfilePicUpload(f)
    \/ \E id \in {0} \cup UserIds : GetProfilePic(id)
    \/ \E n \in DOMAIN picdir : LosePicture(n)

SpecAvatar == Init /\ [][NextAvatar]_vars

\* The JSON body and the file part of a ring upload.
Request(is_json, file, name, version, platform, author, author_email, require_mojo) ==
    [is_json |-> is_json, file |-> file, name |-> name, version |-> version,
     platform |-> platform, author |-> author, author_email |-> author_email,
     require_mojo |-> require_mojo]

RingFile(filename, bytes) == [present |-> TRUE, filename |-> filename, bytes |-> bytes]

UploadSteps(requests) ==
    \/ \E request \in requests, missing_raises \in BOOLEAN :
          UploadBegin(request, missing_raises)
    \/ UploadRecord
    \/ UploadWrite

\* Ring uploads: every way a request is rejected, two file names, two contents.
RingRequests ==
    {Request(j, f, n, V1, p, Empty, Empty, Empty) :
        j \in BOOLEAN,
        f \in {NoFile} \cup {RingFile(fn, b) : fn \in {Empty, <<"f">>, <<"g">>}, b \in Bytes},
        n \in {NoneV, PA}, p \in Platforms}

NextRing ==
    \/ UploadSteps(RingRequests)
    \/ UploadCrash
    \/ \E fn \in {<<"f">>, <<"g">>}, b \in Bytes : PlaceFile(fn, b)
    \/ \E p \in Platforms : RingDownload(PA, V1, p)

SpecRing == Init /\ [][NextRing]_vars

\* Lookups: projects and rings that differ in name, version and platform.
QueryRequests ==
    {Request(TRUE, RingFile(<<"f">>, "B1"), n, V1, p, Empty, Empty, Empty) :
        n \in Names, p \in Platforms}

NextQuery ==
    \/ /\ Len(projects) < MaxProjects
       /\ \E n \in Names, v \in Versions : AddProject(n, v, NoMeta)
    \/ UploadSteps(QueryRequests)
    \/ \E n \in Names, v \in {Empty} \cup Versions : Project(n, v)
    \/ \E n \in Names, v \in {Empty} \cup Versions : ProjectHistory(n, v)
    \/ \E n \in Names, v \in {Empty} \cup Versions : ProjectFiles(n, v)
    \/ \E n \in Names, v \in {Empty} \cup Versions, p \in Platforms : RingDownload(n, v, p)

SpecQuery == Init /\ [][NextQuery]_vars

\* project_info: one project with any metadata, one ring with any of the
\* fields project_info reports.
InfoRequests ==
    {Request(TRUE, RingFile(<<"f">>, "B1"), PA, V1, Empty, a, e, m) :
        a \in {Empty, Present}, e \in {Empty, Present}, m \in {Empty, Present}}

NextInfo ==
    \/ /\ projects = <<>>
       /\ \E meta \in AllMeta : AddProject(PA, V1, meta)
    \/ UploadSteps(InfoRequests)
    \/ \E v \in {Empty, V1} : Project(PA, v)

SpecInfo == Init /\ [][NextInfo]_vars

\* Search: names and query strings over letters and the LIKE wildcards.
NameChars == {"A", "_"}
QueryChars == {"a", "_", "%"}
SearchNames == SeqsUpTo(NameChars, MaxNameLen) \ {<<>>}
Queries == SeqsUpTo(QueryChars, MaxQueryLen)

NextSearch ==
    \/ /\ Len(projects) < MaxProjects
       /\ \E n \in SearchNames : AddProject(n, V1, NoMeta)
    \/ \E q \in Queries : Search(q)

SpecSearch == Init /\ [][NextSearch]_vars

\* ------------------------------------------------------------------ claims: authentication

\* C1: register(email, username, p) followed, after any logout and any other
\* request that does not reset the password, by login(email, p) succeeds and
\* leaves the session authenticated as the user that register created.
C1_RegisterThenLogin ==
    resp.op = "login" =>
        \A u \in DOMAIN users :
            (users[u].email = resp.email /\ regpw[u] = resp.password) =>
                (resp.outcome \in {"ok", "reset"} /\ session = u)

\* A login by the second registered user, after a logout, with the password
\* of its registration.
C1_Witness ==
    /\ resp.op = "login"
    /\ Len(users) = 2
    /\ users[2].email = resp.email
    /\ regpw[2] = resp.password
    /\ resp.password # NoPassword
    /\ session = 2

\* The user a login request names and whether the password is not the user's.
WrongPasswordFor(email, password) ==
    /\ UserByEmail(email) # 0
    /\ users[UserByEmail(email)].password # hash_password(password)

\* C2 (as stated): for every stored state of the record, the absent hash
\* included, a login with the right email and a password that is not the
\* user's starts no session and changes no field of the record.
C2_WrongPasswordNeverAuthenticates ==
    [][\A e \in ValidEmails, p \in Passwords \cup {NoPassword} :
          (Login(e, p) /\ WrongPasswordFor(e, p)) =>
              (session' = session /\ users' = users /\ profiles' = profiles)]_vars

\* C2 (amended): when the stored hash is present, such a login starts no
\* session; whatever the stored hash, it changes no field of the record.
C2_WrongPasswordWithHash ==
    [][\A e \in ValidEmails, p \in Passwords \cup {NoPassword} :
          (Login(e, p) /\ WrongPasswordFor(e, p)) =>
              /\ users' = users /\ profiles' = profiles
              /\ users[UserByEmail(e)].password # Empty => session' = session
              /\ users[UserByEmail(e)].password = Empty => session' = UserByEmail(e)]_vars

\* A refused login of an existing user, by a requester who is not that user.
C2_Witness ==
    /\ resp.op = "login"
    /\ resp.outcome = "wrong"
    /\ UserByEmail(resp.email) # 0
    /\ session # UserByEmail(resp.email)

\* ------------------------------------------------------------------ claims: profiles

\* C3: edit_profile with a username that belongs to another account reports a
\* conflict and leaves every stored username as it was, while education,
\* experience and bio of the editing user become the submitted values.
C3_EditConflict ==
    (/\ resp.op = "edit_profile"
     /\ resp.status = 302
     /\ \E i \in DOMAIN resp.before : i # resp.uid /\ resp.before[i] = resp.username)
    => /\ resp.conflict
       /\ \A i \in DOMAIN users : users[i].username = resp.before[i]
       /\ profiles[resp.uid].education = resp.form[1]
       /\ profiles[resp.uid].experience = resp.form[2]
       /\ profiles[resp.uid].bio = resp.form[3]

\* A conflicting edit by the second account, with its free-text fields set.
C3_Witness ==
    /\ resp.op = "edit_profile"
    /\ resp.status = 302
    /\ resp.uid = 2
    /\ resp.conflict
    /\ users[2].username # resp.username
    /\ users[1].username = resp.username
    /\ profiles[2].bio = "bio2"

\* C7: the profile is returned only when it is public or the requester is its
\* owner, and the response to a private profile for any other requester has
\* the status and the message of the response for a user id that does not exist.
C7_PrivateLikeAbsent ==
    resp.op = "profile" =>
        LET absent == profile(Len(users) + 1)
        IN  /\ resp.r.status = 200 =>
                (profiles[resp.uid].is_public \/ session = resp.uid)
            /\ (/\ resp.uid \in DOMAIN users
                /\ ~profiles[resp.uid].is_public
                /\ session # resp.uid)
               => (/\ resp.r.status = absent.status
                   /\ resp.r.description = absent.description)

\* ------------------------------------------------------------------ claims: avatars

\* C4 (as stated): the second of two successive uploads by a user whose
\* username did not change records the stored filename of the first, and
\* get_avatar after the upload returns the uploaded bytes.
C4_SameStoredName ==
    (resp.op = "upload" /\ resp.status = 200) =>
        /\ resp.prev # Empty => resp.stored = resp.prev
        /\ get_profile_pic(resp.uid).body = <<resp.bytes>>

\* C4 (amended): the stored filename is the same when the two sanitized
\* filenames have the same extension; get_avatar after each upload returns
\* the bytes of that upload.
C4_SameStoredNameSameSuffix ==
    (resp.op = "upload" /\ resp.status = 200) =>
        /\ users[resp.uid].picture = resp.stored
        /\ (resp.prev # Empty /\ PathSuffix(resp.prev) = resp.suffix)
               => resp.stored = resp.prev
        /\ get_profile_pic(resp.uid).status = 200
        /\ get_profile_pic(resp.uid).body = <<resp.bytes>>
        /\ get_profile_pic(0).body = <<resp.bytes>>

\* A second upload with the extension of the first and other bytes.
C4_Witness ==
    /\ resp.op = "upload"
    /\ resp.status = 200
    /\ resp.prev # Empty
    /\ resp.suffix # Empty
    /\ resp.stored = resp.prev
    /\ resp.bytes = "B2"

\* Whether get_profile_pic's user exists for the request in resp.
PicUserExists ==
    IF resp.uid = 0 THEN is_authenticated ELSE resp.uid \in DOMAIN users

PicUser == users[IF resp.uid = 0 THEN session ELSE resp.uid]

\* C8 (as stated): for an existing user get_avatar serves the stored file when
\* a picture is recorded and its file exists, and the default asset otherwise.
C8_DefaultAssetFallback ==
    (resp.op = "get_profile_pic" /\ PicUserExists) =>
        IF PicUser.picture # Empty /\ PicUser.picture \in DOMAIN picdir
        THEN resp.r.status = 200 /\ resp.r.body = <<picdir[PicUser.picture]>>
        ELSE resp.r.status = 200 /\ resp.r.body = <<DefaultAsset>>

\* C8 (amended): ... and otherwise answers 404 "Profile picture not found."
\* with no body.
C8_NotFoundFallback ==
    (resp.op = "get_profile_pic" /\ PicUserExists) =>
        IF PicUser.picture # Empty /\ PicUser.picture \in DOMAIN picdir
        THEN resp.r.status = 200 /\ resp.r.body = <<picdir[PicUser.picture]>>
        ELSE /\ resp.r.status = 404
             /\ resp.r.description = NoPictureDescription
             /\ resp.r.body = Empty

\* A fetch by id for a user whose recorded picture file is gone.
C8_Witness ==
    /\ resp.op = "get_profile_pic"
    /\ resp.uid \in DOMAIN users
    /\ users[resp.uid].picture # Empty
    /\ users[resp.uid].picture \notin DOMAIN picdir
    /\ resp.r.status = 404

\* ------------------------------------------------------------------ claims: package index

\* The field of the stored row behind a key of project_info's map.
InfoField(k) ==
    IF k \in RingInfoFields THEN rings[resp.r.ring][k] ELSE projects[resp.r.pj][k]

ContainsIgnoringCase(name, q) ==
    \E k \in 0..(Len(name) - Len(q)) :
        \A m \in 1..Len(q) : Lower(name[k + m]) = Lower(q[m])

Reverse(table) == [i \in DOMAIN table |-> table[Len(table) + 1 - i]]

Rows(table, ids) == {table[i] : i \in Range(ids)}

\* C6: search(q) returns exactly the projects whose name contains q as a
\* case-insensitive substring, each once, and the same records whatever the
\* order of insertion.
C6_SearchExact ==
    resp.op = "search" =>
        /\ Range(resp.results) =
               {i \in DOMAIN projects : ContainsIgnoringCase(projects[i].name, resp.q)}
        /\ Cardinality(Range(resp.results)) = Len(resp.results)
        /\ Rows(Reverse(projects), search(Reverse(projects), resp.q))
               = Rows(projects, resp.results)

\* A query with a wildcard character that the pattern match alone would have
\* answered with both projects.
C6_Witness ==
    /\ resp.op = "search"
    /\ resp.q = <<"a", "_">>
    /\ Len(projects) = 2
    /\ projects[1].name = <<"A", "A">>
    /\ projects[2].name = <<"A", "_">>
    /\ resp.results = <<2>>

\* Whether the file of Ring i does not hold the bytes uploaded with it.
Lacking(i) == ContentAt(ringdir, rings[i].file_name) # ringlog[i].bytes

\* The order of the steps of an upload and what a rejected upload changes.
UploadOrder ==
    /\ upl.pc = "checksummed" => (rings = upl.rings0 /\ ringdir = upl.dir0)
    /\ upl.pc = "recorded" =>
          /\ Len(rings) = Len(upl.rings0) + 1
          /\ SubSeq(rings, 1, Len(upl.rings0)) = upl.rings0
          /\ ringdir = upl.dir0
          /\ rings[Len(rings)].sha256
                 = Sha(ContentAt(upl.dir0, upl.request.file.filename))
          /\ ~ringlog[Len(rings)].written
    /\ (resp.op = "ring_upload" /\ resp.status = 200) =>
          /\ resp.added = 1
          /\ ringlog[Len(rings)].written
          /\ ~Lacking(Len(rings))
    /\ (resp.op = "ring_upload" /\ resp.status \in {400, 415, 422, 500}) =>
          (resp.added = 0 /\ ~resp.wrote)

\* C9 (as stated): checksum of the destination, then the record, then the
\* bytes; a rejected upload changes nothing; a Ring record lacks its uploaded
\* bytes only between its creation and its file write.
C9_DanglingOnlyInBetween ==
    /\ UploadOrder
    /\ \A i \in DOMAIN rings : Lacking(i) => ~ringlog[i].written

\* C9 (amended): ... or after a later upload wrote the same file name.
C9_DanglingOrOverwritten ==
    /\ UploadOrder
    /\ \A i \in DOMAIN rings :
          Lacking(i) =>
              \/ ~ringlog[i].written
              \/ \E j \in DOMAIN rings :
                    /\ j > i
                    /\ rings[j].file_name = rings[i].file_name
                    /\ ringlog[j].written

\* A completed upload that overwrote the file of an earlier, completed upload
\* under another key, whose checksum it had recorded as its own.
C9_Witness ==
    /\ resp.op = "ring_upload"
    /\ resp.status = 200
    /\ Len(rings) = 2
    /\ ringlog[1].written
    /\ ringlog[2].written
    /\ rings[2].file_name = rings[1].file_name
    /\ rings[2].sha256 = Sha(ringlog[1].bytes)
    /\ Lacking(1)

\* The version a view looks up: the latest one when none is given.
Resolved(name, version) ==
    IF version = Empty THEN latest_project_version(name) ELSE version

LookupVersions == Versions \cup {NoneV}

\* C10 (as stated): each lookup written `a == x and b == y [and c == z]`
\* returns what the lookup on the first condition alone returns.
C10_FirstConditionOnly ==
    \A n \in Names, v \in LookupVersions, p \in Platforms :
        /\ project_lookup(n, v) = get_or_none(projects, Eq("name", n))
        /\ latest_ring(n) = get_or_none(rings, Eq("name", n))
        /\ files_rings(n, v) = MatchingIds(rings, Eq("name", n))
        /\ ring_lookup(n, v, p) = get_or_none(rings, Eq("name", n))

\* C10 (amended): each such lookup returns what the lookup on the last
\* condition alone returns, and the views answer with that row.
C10_LastConditionOnly ==
    /\ \A n \in Names, v \in LookupVersions, p \in Platforms :
          /\ project_lookup(n, v) = get_or_none(projects, Eq("version", v))
          /\ latest_ring(n) = get_or_none(rings, Eq("upload_at", latest_ring_dt(n)))
          /\ files_rings(n, v) = MatchingIds(rings, Eq("version", v))
          /\ ring_lookup(n, v, p) =
                 IF p # Empty THEN get_or_none(rings, Eq("platform", p))
                 ELSE get_or_none(rings, Eq("version", v))
    /\ resp.op \in {"project", "project_history", "project_files"} =>
          LET pj == get_or_none(projects,
                                Eq("version", Resolved(resp.name, resp.version)))
          IN  IF resp.status = 200 THEN resp.pj = pj /\ resp.r.pj = pj ELSE pj = 0
    /\ resp.op = "project_files" /\ resp.status = 200 =>
          resp.listing = MatchingIds(rings,
                                     Eq("version", Resolved(resp.name, resp.version)))
    /\ resp.op = "ring_download" =>
          resp.ring = IF resp.platform # Empty
                      THEN get_or_none(rings, Eq("platform", resp.platform))
                      ELSE get_or_none(rings,
                               Eq("version", Resolved(resp.name, resp.version)))

\* A download that names one project and is answered with the ring of
\* another, and a project page likewise.
C10_Witness ==
    /\ resp.op = "ring_download"
    /\ resp.platform # Empty
    /\ resp.ring # 0
    /\ rings[resp.ring].name # resp.name
    /\ \E i \in DOMAIN projects : projects[i].name = resp.name
    /\ project_lookup(resp.name, V2) # 0
    /\ projects[project_lookup(resp.name, V2)].name # resp.name

====
